---- MODULE Spec2Model ----
(***************************************************************************)
(* Weekly market outlook bot (src/main.py): the Driver main(), the news    *)
(* aggregation pipeline (fetch, score, deduplicate, rank), the outlook     *)
(* generator and the webhook notifier with its chunking and 400 fallback.  *)
(*                                                                         *)
(* A Python str is a sequence of one-character strings, so len, slicing,   *)
(* lower, split, strip and the substring test are computed character by    *)
(* character as the interpreter computes them.                             *)
(***************************************************************************)
EXTENDS Integers, Sequences, FiniteSets, TLC

VARIABLES
  pc,             \* position of main(): "init", "test", "fetch", "generate", "notify", "except", "exit";
                  \* of a single function call: "call_dedup", "call_fetch", "call_split", "return"
  env,            \* os.environ: OPENAI_API_KEY, DISCORD_WEBHOOK_URL, NEWS_API_KEY
  articles,       \* main's local `articles`
  outlook,        \* main's local `outlook`
  posts,          \* every requests.post made to the webhook, in order: payload and answer
  llm_requests,   \* number of chat.completions.create calls made
  news_requests,  \* number of requests made to news sources (News API GET, feedparser.parse)
  connected,      \* what bot.test_openai() returned: "untested", "yes", "no"
  exc,            \* the exception main is handling or has re-raised ("none" when there is none)
  outcome,        \* how main ended: "running", "returned", "raised"
  arg,            \* the argument of a single function call (SpecDedup, SpecFetch, SpecSplit);
                  \* in a run of main, what the news sources and then the text-generation
                  \* service answered to fetch_weekend_news and generate_weekly_outlook
  ret             \* what the call returned (<<>> before it returns)

vars == << pc, env, articles, outlook, posts, llm_requests, news_requests, connected, exc, outcome, arg, ret >>

----------------------------------------------------------------------------
(* Python str operations *)

Min(S) == CHOOSE x \in S : \A y \in S : x <= y
Max2(a, b) == IF a >= b THEN a ELSE b
Min2(a, b) == IF a <= b THEN a ELSE b

\* s[:n]
Prefix(s, n) == SubSeq(s, 1, Min2(n, Len(s)))

\* c * n
Repeat(c, n) == [i \in 1..n |-> c]

\* str.isspace for one character
IsSpace(c) == c \in {" ", "\n", "\t", "\r"}

\* needle in haystack
Contains(haystack, needle) ==
  \E i \in 1..(Len(haystack) - Len(needle) + 1) :
     SubSeq(haystack, i, i + Len(needle) - 1) = needle

UpperChars == <<"A","B","C","D","E","F","G","H","I","J","K","L","M","N","O","P","Q","R","S","T","U","V","W","X","Y","Z">>
LowerChars == <<"a","b","c","d","e","f","g","h","i","j","k","l","m","n","o","p","q","r","s","t","u","v","w","x","y","z">>

LowerChar(c) ==
  IF \E i \in 1..Len(UpperChars) : UpperChars[i] = c
  THEN LowerChars[CHOOSE i \in 1..Len(UpperChars) : UpperChars[i] = c]
  ELSE c

\* str.lower()
Lower(s) == [i \in 1..Len(s) |-> LowerChar(s[i])]

\* str.strip(): the leading and the trailing whitespace characters are removed
Strip(s) ==
  LET lead == Cardinality({i \in 1..Len(s) : \A j \in 1..i : IsSpace(s[j])})
      trail == Cardinality({i \in 1..Len(s) : \A j \in i..Len(s) : IsSpace(s[j])})
  IN  IF lead = Len(s) THEN <<>> ELSE SubSeq(s, lead + 1, Len(s) - trail)

\* str.split(): the maximal runs of non-whitespace characters, in order
RECURSIVE SplitWords(_)
SplitWords(s) ==
  LET starts == {i \in 1..Len(s) : ~IsSpace(s[i])}
  IN  IF starts = {} THEN <<>>
      ELSE LET b == Min(starts)
               stops == {i \in b..Len(s) : IsSpace(s[i])}
               e == IF stops = {} THEN Len(s) + 1 ELSE Min(stops)
           IN  <<SubSeq(s, b, e - 1)>> \o SplitWords(SubSeq(s, e, Len(s)))

\* str.split(sep) for a separator of two characters: cut at each non-overlapping
\* occurrence found scanning left to right; always at least one piece
RECURSIVE SplitOn(_, _)
SplitOn(s, sep) ==
  LET hits == {i \in 1..(Len(s) - 1) : s[i] = sep[1] /\ s[i + 1] = sep[2]}
  IN  IF hits = {} THEN <<s>>
      ELSE LET i == Min(hits)
           IN  <<SubSeq(s, 1, i - 1)>> \o SplitOn(SubSeq(s, i + 2, Len(s)), sep)

\* sep.join(pieces)
RECURSIVE Join(_, _)
Join(pieces, sep) ==
  IF pieces = <<>> THEN <<>>
  ELSE IF Len(pieces) = 1 THEN pieces[1]
  ELSE pieces[1] \o sep \o Join(Tail(pieces), sep)

\* the elements of a sequence
Range(s) == {s[i] : i \in 1..Len(s)}

----------------------------------------------------------------------------
(* _calculate_relevance *)

high_keywords ==
  << <<"f","e","d","e","r","a","l"," ","r","e","s","e","r","v","e">>,
     <<"f","e","d">>,
     <<"i","n","t","e","r","e","s","t"," ","r","a","t","e">>,
     <<"i","n","f","l","a","t","i","o","n">>,
     <<"g","d","p">>,
     <<"u","n","e","m","p","l","o","y","m","e","n","t">>,
     <<"e","a","r","n","i","n","g","s">>,
     <<"g","u","i","d","a","n","c","e">>,
     <<"o","u","t","l","o","o","k">>,
     <<"f","o","r","e","c","a","s","t">>,
     <<"e","c","o","n","o","m","i","c"," ","d","a","t","a">>,
     <<"j","o","b","s"," ","r","e","p","o","r","t">>,
     <<"f","o","m","c">>,
     <<"p","p","i">>,
     <<"c","p","i">>,
     <<"r","e","t","a","i","l"," ","s","a","l","e","s">>,
     <<"m","a","n","u","f","a","c","t","u","r","i","n","g">>,
     <<"c","o","n","s","u","m","e","r"," ","c","o","n","f","i","d","e","n","c","e">> >>

medium_keywords ==
  << <<"m","e","r","g","e","r">>,
     <<"a","c","q","u","i","s","i","t","i","o","n">>,
     <<"i","p","o">>,
     <<"a","n","a","l","y","s","t">>,
     <<"u","p","g","r","a","d","e">>,
     <<"d","o","w","n","g","r","a","d","e">>,
     <<"d","i","v","i","d","e","n","d">>,
     <<"s","p","l","i","t">>,
     <<"b","u","y","b","a","c","k">>,
     <<"g","u","i","d","a","n","c","e">>,
     <<"r","e","v","e","n","u","e">>,
     <<"p","r","o","f","i","t">> >>

weekly_keywords ==
  << <<"w","e","e","k"," ","a","h","e","a","d">>,
     <<"o","u","t","l","o","o","k">>,
     <<"f","o","r","e","c","a","s","t">>,
     <<"p","r","e","v","i","e","w">>,
     <<"e","x","p","e","c","t","a","t","i","o","n","s">>,
     <<"t","r","e","n","d">>,
     <<"m","o","m","e","n","t","u","m">>,
     <<"t","e","c","h","n","i","c","a","l"," ","a","n","a","l","y","s","i","s">>,
     <<"s","u","p","p","o","r","t">>,
     <<"r","e","s","i","s","t","a","n","c","e">> >>

watchlist ==
  << <<"S","P","Y">>,
     <<"Q","Q","Q">>,
     <<"I","W","M">>,
     <<"D","I","A">>,
     <<"A","A","P","L">>,
     <<"M","S","F","T">>,
     <<"G","O","O","G","L">>,
     <<"A","M","Z","N">>,
     <<"T","S","L","A">>,
     <<"N","V","D","A">>,
     <<"M","E","T","A">>,
     <<"X","L","F">>,
     <<"X","L","E">>,
     <<"X","L","K">>,
     <<"X","L","V">>,
     <<"X","L","I">> >>

\* number of keywords of the list that occur in the text (membership, once per list entry)
RECURSIVE CountIn(_, _)
CountIn(keywords, text) ==
  IF keywords = <<>> THEN 0
  ELSE (IF Contains(text, Head(keywords)) THEN 1 ELSE 0) + CountIn(Tail(keywords), text)

\* symbol.lower() in text or f"${symbol.lower()}" in text
RECURSIVE CountSymbols(_, _)
CountSymbols(symbols, text) ==
  IF symbols = <<>> THEN 0
  ELSE (IF Contains(text, Lower(Head(symbols))) \/ Contains(text, <<"$">> \o Lower(Head(symbols)))
        THEN 1 ELSE 0) + CountSymbols(Tail(symbols), text)

\* article.get('title', '') and article.get('description', '') joined by a space, lowercased
_calculate_relevance(title, description) ==
  LET text == Lower(title \o <<" ">> \o description)
  IN  4 * CountIn(high_keywords, text)
    + 2 * CountIn(medium_keywords, text)
    + 3 * CountIn(weekly_keywords, text)
    + 3 * CountSymbols(watchlist, text)

RssFeedName == <<"R","S","S"," ","F","e","e","d">>
----------------------------------------------------------------------------
(* Upstream records.  An optional value (a dict key or an attribute that may *)
(* be missing, or None) is <<>> when missing and <<v>> when present.         *)

Truthy(opt) == opt # <<>> /\ opt[1] # <<>>

\* the keys of an article dict built by the two fetchers
Article(title, description, url, source, published_at, relevance_score) ==
  [title |-> title, description |-> description, url |-> url, source |-> source,
   published_at |-> published_at, relevance_score |-> relevance_score]

DescriptionCap == 200
EntriesPerFeed == 10
TopN == 15

\* the loop over data['articles']: a record without title or description is skipped;
\* a record that passes and lacks url, source.name or publishedAt raises KeyError,
\* which ends the loop and keeps what was appended before it
RECURSIVE NewsApiLoop(_)
NewsApiLoop(records) ==
  IF records = <<>> THEN <<>>
  ELSE LET r == Head(records)
       IN  IF Truthy(r.title) /\ Truthy(r.description)
           THEN IF r.url = <<>> \/ r.source = <<>> \/ r.publishedAt = <<>>
                THEN <<>>
                ELSE <<Article(r.title[1], r.description[1], r.url[1], r.source[1],
                               r.publishedAt[1],
                               _calculate_relevance(r.title[1], r.description[1]))>>
                     \o NewsApiLoop(Tail(records))
           ELSE NewsApiLoop(Tail(records))

\* response: [kind |-> "exception"] (session.get or response.json raised) or
\* [kind |-> "response", status |-> n, articles |-> records]
_fetch_from_newsapi(response) ==
  IF response.kind = "exception" THEN <<>>
  ELSE IF response.status = 200 THEN NewsApiLoop(response.articles)
  ELSE <<>>

\* the loop over feed.entries[:10]
RECURSIVE RssEntries(_, _)
RssEntries(entries, feed_title) ==
  IF entries = <<>> THEN <<>>
  ELSE LET e == Head(entries)
       IN  (IF e.title # <<>> /\ e.link # <<>>
            THEN <<Article(e.title[1],
                           Prefix(IF e.summary # <<>> THEN e.summary[1] ELSE e.title[1],
                                  DescriptionCap),
                           e.link[1],
                           IF feed_title # <<>> THEN feed_title[1] ELSE RssFeedName,
                           IF e.published # <<>> THEN e.published[1] ELSE <<>>,
                           _calculate_relevance(e.title[1],
                              IF e.summary # <<>> THEN e.summary[1] ELSE <<>>))>>
            ELSE <<>>)
           \o RssEntries(Tail(entries), feed_title)

\* feeds: one per URL of rss_feeds, each [kind |-> "exception"] (feedparser.parse raised)
\* or [kind |-> "feed", title |-> optional, entries |-> entries]
RECURSIVE _fetch_from_rss(_)
_fetch_from_rss(feeds) ==
  IF feeds = <<>> THEN <<>>
  ELSE (IF Head(feeds).kind = "exception" THEN <<>>
        ELSE RssEntries(Prefix(Head(feeds).entries, EntriesPerFeed), Head(feeds).title))
       \o _fetch_from_rss(Tail(feeds))

----------------------------------------------------------------------------
(* _deduplicate_articles *)

\* set(title.lower().split())
TitleWords(title) == Range(SplitWords(Lower(title)))

\* the comparison written >= 0.7
OverlapAtLeast(title_words, seen_words) ==
  10 * Cardinality(title_words \cap seen_words)
     >= 7 * Max2(Cardinality(title_words), Cardinality(seen_words))

\* len(title_words & seen_words) / max(len(title_words), len(seen_words)) > 0.7.
\* n/m > 0.7 in IEEE doubles is 10n > 7m: n/m = 0.7 rounds to the double of the
\* literal 0.7, and any other quotient of lengths is further from it than an ulp.
OverlapIsDuplicate(title_words, seen_words) ==
  10 * Cardinality(title_words \cap seen_words)
     > 7 * Max2(Cardinality(title_words), Cardinality(seen_words))

\* the division raises ZeroDivisionError when both word sets are empty
OverlapRaises(title_words, seen_words) ==
  Max2(Cardinality(title_words), Cardinality(seen_words)) = 0

\* The scan over articles with the accumulators unique_articles and seen_titles.
\* A title without words overlaps 0 with every seen title that has words, so the loop
\* over seen_titles (a set, in any order) cannot break before it meets a seen title
\* without words: the raise does not depend on the iteration order.
RECURSIVE DedupScan(_, _, _)
DedupScan(rest, unique_articles, seen_titles) ==
  IF rest = <<>> THEN [raised |-> FALSE, value |-> unique_articles]
  ELSE LET article == Head(rest)
           title_words == TitleWords(article.title)
       IN  IF \E seen_title \in seen_titles :
                 OverlapRaises(title_words, Range(SplitWords(seen_title)))
           THEN [raised |-> TRUE, value |-> <<>>]
           ELSE IF \E seen_title \in seen_titles :
                      OverlapIsDuplicate(title_words, Range(SplitWords(seen_title)))
                THEN DedupScan(Tail(rest), unique_articles, seen_titles)
                ELSE DedupScan(Tail(rest), Append(unique_articles, article),
                               seen_titles \cup {Lower(article.title)})

_deduplicate_articles(list) == DedupScan(list, <<>>, {})

----------------------------------------------------------------------------
(* fetch_weekend_news *)

\* sorted(..., key=relevance_score, reverse=True): a stable sort, so an element goes
\* behind every element whose score is greater than or equal to its own
\* an insertion that puts an element before the elements of equal score
RECURSIVE InsertBeforeTies(_, _)
InsertBeforeTies(sorted, a) ==
  IF sorted = <<>> THEN <<a>>
  ELSE IF Head(sorted).relevance_score > a.relevance_score
       THEN <<Head(sorted)>> \o InsertBeforeTies(Tail(sorted), a)
       ELSE <<a>> \o sorted

RECURSIVE InsertByScore(_, _)
InsertByScore(sorted, a) ==
  IF sorted = <<>> THEN <<a>>
  ELSE IF Head(sorted).relevance_score >= a.relevance_score
       THEN <<Head(sorted)>> \o InsertByScore(Tail(sorted), a)
       ELSE <<a>> \o sorted

RECURSIVE SortedByScore(_)
SortedByScore(list) ==
  IF list = <<>> THEN <<>>
  ELSE InsertByScore(SortedByScore(SubSeq(list, 1, Len(list) - 1)), list[Len(list)])

\* news_api_key: the optional NEWS_API_KEY; upstream: [api |-> response, feeds |-> feeds].
\* `articles` before deduplication: the News API articles when the key is set, then
\* the RSS articles
FetchedArticles(news_api_key, upstream) ==
  (IF Truthy(news_api_key) THEN _fetch_from_newsapi(upstream.api) ELSE <<>>)
  \o _fetch_from_rss(upstream.feeds)

\* An exception inside the try block makes the function return [].
fetch_weekend_news(news_api_key, upstream) ==
  LET unique_articles == _deduplicate_articles(FetchedArticles(news_api_key, upstream))
  IN  IF unique_articles.raised THEN <<>>
      ELSE Prefix(SortedByScore(unique_articles.value), TopN)

\* requests made by fetch_weekend_news: one GET when the key is set, one parse per feed
NewsRequests(news_api_key, upstream) ==
  (IF Truthy(news_api_key) THEN 1 ELSE 0) + Len(upstream.feeds)

----------------------------------------------------------------------------
(* split_outlook, the chunking of send_weekly_discord_webhook *)

ParagraphSep == <<"\n", "\n">>
SentenceSep == <<".", " ">>
max_length == 1000

\* the loop over sentences with the accumulators parts and temp_part
RECURSIVE SentenceLoop(_, _, _, _)
SentenceLoop(sentences, parts, temp_part, limit) ==
  IF sentences = <<>> THEN [parts |-> parts, temp_part |-> temp_part]
  ELSE LET sentence == Head(sentences)
       IN  IF Len(temp_part \o sentence \o SentenceSep) <= limit
           THEN SentenceLoop(Tail(sentences), parts, temp_part \o sentence \o SentenceSep, limit)
           ELSE SentenceLoop(Tail(sentences),
                             IF Strip(temp_part) # <<>> THEN Append(parts, Strip(temp_part))
                                                        ELSE parts,
                             sentence \o SentenceSep, limit)

\* the loop over paragraphs with the accumulators parts and current_part,
\* followed by the flush of the trailing current_part
RECURSIVE ParagraphLoop(_, _, _, _)
ParagraphLoop(paragraphs, parts, current_part, limit) ==
  IF paragraphs = <<>>
  THEN IF Strip(current_part) # <<>> THEN Append(parts, Strip(current_part)) ELSE parts
  ELSE LET paragraph == Head(paragraphs)
       IN  IF Len(current_part \o paragraph \o ParagraphSep) > limit
           THEN LET flushed == Strip(current_part) # <<>>
                    parts1 == IF flushed THEN Append(parts, Strip(current_part)) ELSE parts
                    current1 == IF flushed THEN <<>> ELSE current_part
                IN  IF Len(paragraph) > limit
                    THEN LET s == SentenceLoop(SplitOn(paragraph, SentenceSep), parts1, <<>>, limit)
                         IN  ParagraphLoop(Tail(paragraphs), s.parts,
                                           IF Strip(s.temp_part) # <<>> THEN s.temp_part
                                                                        ELSE current1,
                                           limit)
                    ELSE ParagraphLoop(Tail(paragraphs), parts1, paragraph \o ParagraphSep, limit)
           ELSE ParagraphLoop(Tail(paragraphs), parts, current_part \o paragraph \o ParagraphSep,
                              limit)

split_outlook(text, limit) ==
  IF Len(text) <= limit THEN <<text>>
  ELSE ParagraphLoop(SplitOn(text, ParagraphSep), <<>>, <<>>, limit)

----------------------------------------------------------------------------
(* string literals of the generator, the notifier and the driver *)

NoNewsFallback ==
  <<"L","i","m","i","t","e","d"," ","n","e","w","s"," ","a","v","a","i","l","a","b","l","e"," ","f","o","r"," ","t","h","i","s"," ","w","e","e","k","'","s"," ","o","u","t","l","o","o","k","."," ","F","o","c","u","s"," ","o","n"," ","m","a","j","o","r"," ","e","c","o","n","o","m","i","c"," ","i","n","d","i","c","a","t","o","r","s"," ","a","n","d"," ","e","a","r","n","i","n","g","s"," ","r","e","l","e","a","s","e","s",".">>
ServiceFallback ==
  <<"U","n","a","b","l","e"," ","t","o"," ","g","e","n","e","r","a","t","e"," ","w","e","e","k","l","y"," ","o","u","t","l","o","o","k"," ","a","t"," ","t","h","i","s"," ","t","i","m","e","."," ","F","o","c","u","s"," ","o","n"," ","m","a","j","o","r"," ","e","c","o","n","o","m","i","c"," ","i","n","d","i","c","a","t","o","r","s",","," ","e","a","r","n","i","n","g","s"," ","r","e","l","e","a","s","e","s",","," ","a","n","d"," ","F","e","d"," ","c","o","m","m","u","n","i","c","a","t","i","o","n","s"," ","f","o","r"," ","t","h","e"," ","w","e","e","k"," ","a","h","e","a","d",".">>
SimplePrefix ==
  <<"*","*","W","e","e","k","l","y"," ","M","a","r","k","e","t"," ","O","u","t","l","o","o","k"," ","-"," ">>
SimpleInfix ==
  <<"*","*","\n","\n">>
ErrorPrefix ==
  <<"*","*","E","r","r","o","r"," ","i","n"," ","w","e","e","k","l","y"," ","o","u","t","l","o","o","k"," ","b","o","t",":","*","*"," ">>
OpenAIKeyMessage ==
  <<"O","P","E","N","A","I","_","A","P","I","_","K","E","Y"," ","e","n","v","i","r","o","n","m","e","n","t"," ","v","a","r","i","a","b","l","e"," ","i","s"," ","r","e","q","u","i","r","e","d">>
WebhookMessage ==
  <<"D","I","S","C","O","R","D","_","W","E","B","H","O","O","K","_","U","R","L"," ","e","n","v","i","r","o","n","m","e","n","t"," ","v","a","r","i","a","b","l","e"," ","i","s"," ","r","e","q","u","i","r","e","d">>
week_range ==
  <<"N","o","v","e","m","b","e","r"," ","0","9"," ","-"," ","N","o","v","e","m","b","e","r"," ","1","3",","," ","2","0","2","6">>
StoryOpen ==
  <<"*"," ","[">>
StoryMid ==
  <<".",".",".","]","(">>
StoryClose ==
  <<")">>

----------------------------------------------------------------------------
(* generate_weekly_outlook *)

\* a generator without the test for an empty list: it always asks the service
generate_always_asks(list, llm) ==
  IF llm.kind = "completion" THEN [text |-> Strip(llm.content), requests |-> 1]
  ELSE [text |-> ServiceFallback, requests |-> 1]

\* llm: the answer of chat.completions.create, [kind |-> "exception"] or
\* [kind |-> "completion", content |-> text].  Returns the text and the number of
\* requests sent.
generate_weekly_outlook(list, llm) ==
  IF list = <<>> THEN [text |-> NoNewsFallback, requests |-> 0]
  ELSE IF llm.kind = "completion" THEN [text |-> Strip(llm.content), requests |-> 1]
  ELSE [text |-> ServiceFallback, requests |-> 1]

----------------------------------------------------------------------------
(* send_weekly_discord_webhook *)

TitleCap == 70
StoriesCap == 8
SimpleCap == 1800
ErrorCap == 200

\* outlook_fields: one field per part, only the first with the visible name
OutlookFields(parts) ==
  [i \in 1..Len(parts) |->
     [name |-> IF i = 1 THEN "Weekly Market Outlook" ELSE "blank",
      value |-> parts[i], inline |-> FALSE]]

\* the lines of stories_text, one per article of articles[:8]
StoryLines(list) ==
  [i \in 1..Len(Prefix(list, StoriesCap)) |->
     StoryOpen \o Prefix(list[i].title, TitleCap) \o StoryMid \o list[i].url \o StoryClose]

main_embed(text) ==
  [title |-> "Weekly Trading Outlook", description |-> week_range,
   fields |-> OutlookFields(split_outlook(text, max_length))]

stories_embed(list) ==
  IF list # <<>>
  THEN [title |-> "Key Stories Shaping the Week", description |-> Join(StoryLines(list), <<"\n">>),
        fields |-> <<>>]
  ELSE [title |-> "Key Stories", description |-> <<>>, fields |-> <<>>]

calendar_embed ==
  [title |-> "Week Ahead Checklist", description |-> <<>>, fields |-> <<>>]

\* payload; json.dumps escapes U+0000 as the six characters \u0000, so the two
\* replace calls find nothing and cleaned_payload equals payload
RichPayload(text, list) ==
  [kind |-> "rich", content |-> <<>>, username |-> "Weekly Market Outlook",
   embeds |-> <<main_embed(text), stories_embed(list), calendar_embed>>]

simple_payload(text) ==
  [kind |-> "simple",
   content |-> SimplePrefix \o week_range \o SimpleInfix \o Prefix(text, SimpleCap),
   username |-> "Weekly Market Outlook", embeds |-> <<>>]

error_payload(message) ==
  [kind |-> "error", content |-> ErrorPrefix \o Prefix(message, ErrorCap),
   username |-> "Weekly Outlook Bot - ERROR", embeds |-> <<>>]

\* The answer to a requests.post: a transport failure (status 0), or a response with an
\* HTTP status; raise_for_status raises HTTPError for 400 <= status < 600.
Transport == [kind |-> "transport", status |-> 0]
Response(status) == [kind |-> "response", status |-> status]
Answers == {Transport} \cup {Response(s) : s \in {204, 400, 404, 429, 500}}
IsHTTPError(answer) == answer.kind = "response" /\ answer.status >= 400 /\ answer.status < 600

NoException == [type |-> "none", message |-> <<>>]
HTTPErrorMessage == Repeat("e", ErrorCap + 1)
\* the exception a failed post raises; the text of an HTTPError names the status and the URL
PostException(answer) ==
  IF answer.kind = "transport" THEN [type |-> "ConnectionError", message |-> <<"t","i","m","e","o","u","t">>]
  ELSE [type |-> "HTTPError", message |-> HTTPErrorMessage]

\* a handler that retries after every HTTP error status
RetriesOnAnyHTTPError(first) == IsHTTPError(first)

\* whether the except HTTPError handler retries with the simplified payload
RetriesSimplified(first) == IsHTTPError(first) /\ first.status = 400

\* first, second: the answers the webhook gives to the first and to a second post.
\* Returns the posts made, in order, and the exception that leaves the function.
send_weekly_discord_webhook(text, list, first, second) ==
  LET post1 == [payload |-> RichPayload(text, list), answer |-> first]
      post2 == [payload |-> simple_payload(text), answer |-> second]
  IN  IF first.kind = "response" /\ ~IsHTTPError(first)
      THEN [posts |-> <<post1>>, exc |-> NoException]
      ELSE IF RetriesSimplified(first)
           THEN [posts |-> <<post1, post2>>,
                 exc |-> IF second.kind = "response" /\ ~IsHTTPError(second)
                         THEN NoException ELSE PostException(second)]
           ELSE [posts |-> <<post1>>, exc |-> PostException(first)]

----------------------------------------------------------------------------
(* Inputs of a run of main(): the environment and what the services answer *)

Str_k == <<"k">>
\* an environment variable: unset, set to the empty string, or set
EnvValues == {<<>>, << <<>> >>, <<Str_k>>}

Str_fed_holds == <<"F","e","d"," ","h","o","l","d","s"," ","r","a","t","e","s">>
Str_spy_reacts == <<"$","S","P","Y"," ","r","e","a","c","t","s">>
Str_link == <<"h","t","t","p",":","/","/","x">>

RssEntry(title, summary, link, published) ==
  [title |-> title, summary |-> summary, link |-> link, published |-> published]
Feed(title, entries) == [kind |-> "feed", title |-> title, entries |-> entries]
FeedDown == [kind |-> "exception", title |-> <<>>, entries |-> <<>>]
ApiDown == [kind |-> "exception", status |-> 0, articles |-> <<>>]
ApiResponse(status, records) == [kind |-> "response", status |-> status, articles |-> records]
ApiRecord(title, description, url, source, publishedAt) ==
  [title |-> title, description |-> description, url |-> url, source |-> source,
   publishedAt |-> publishedAt]

\* rss_feeds holds four URLs
NumFeeds == 4

Outage == [api |-> ApiDown, feeds |-> [i \in 1..NumFeeds |-> FeedDown]]
OneFeedUp ==
  [api |-> ApiResponse(500, <<>>),
   feeds |-> [i \in 1..NumFeeds |->
                IF i = 2 THEN Feed(<<>>, <<RssEntry(<<Str_fed_holds>>, <<Str_spy_reacts>>,
                                                    <<Str_link>>, <<>>)>>)
                ELSE FeedDown]]
ApiUp ==
  [api |-> ApiResponse(200, <<ApiRecord(<<Str_spy_reacts>>, <<Str_fed_holds>>, <<Str_link>>,
                                        <<Str_k>>, <<Str_k>>)>>),
   feeds |-> [i \in 1..NumFeeds |-> Feed(<<Str_k>>, <<>>)]]
\* the request to the News API raises, the second and fourth feed cannot be parsed
TwoFeedsUp ==
  [api |-> ApiDown,
   feeds |-> << Feed(<<>>, <<RssEntry(<<Str_fed_holds>>, <<Str_k>>, <<Str_link>>, <<>>)>>),
                FeedDown,
                Feed(<<Str_k>>, <<RssEntry(<<Str_spy_reacts>>, <<>>, <<Str_link>>, <<Str_k>>)>>),
                FeedDown >>]
\* the News API answers 200 with a complete record and then one without 'url', on
\* which article['url'] raises KeyError; only the first feed can be parsed
ApiBreaksOff ==
  [api |-> ApiResponse(200,
             << ApiRecord(<<Str_fed_holds>>, <<Str_k>>, <<Str_link>>, <<Str_k>>, <<Str_k>>),
                ApiRecord(<<Str_k>>, <<Str_k>>, <<>>, <<Str_k>>, <<Str_k>>) >>),
   feeds |-> [i \in 1..NumFeeds |->
                IF i = 1 THEN Feed(<<>>, <<RssEntry(<<Str_spy_reacts>>, <<>>, <<Str_link>>, <<>>)>>)
                ELSE FeedDown]]
DriverUpstreams == {Outage, OneFeedUp, ApiUp, TwoFeedsUp, ApiBreaksOff}

Completion(content) == [kind |-> "completion", content |-> content]
LlmDown == [kind |-> "exception", content |-> <<>>]
\* texts the service may return: short with blanks around it, one character more than
\* the simplified payload keeps, two paragraphs that need two sections
OutlookTexts ==
  { <<" ">> \o Str_fed_holds \o <<"\n">>,
    Repeat("x", SimpleCap + 1),
    Repeat("x", max_length - 1) \o ParagraphSep \o Repeat("y", 2) }
\* a response whose message.content is None: .strip() raises inside the try block
LlmNoContent == [kind |-> "no_content", content |-> <<>>]
LlmAnswers == {LlmDown, LlmNoContent} \cup {Completion(t) : t \in OutlookTexts}

----------------------------------------------------------------------------
(* main() *)

Init ==
  /\ pc = "init"
  /\ env \in [OPENAI_API_KEY : EnvValues, DISCORD_WEBHOOK_URL : EnvValues,
              NEWS_API_KEY : EnvValues]
  /\ articles = <<>>
  /\ outlook = <<>>
  /\ posts = <<>>
  /\ llm_requests = 0
  /\ news_requests = 0
  /\ connected = "untested"
  /\ exc = NoException
  /\ outcome = "running"
  /\ arg = <<>>
  /\ ret = <<>>

\* a validation that checks the text-generation credential alone
ConfigErrorKeyOnly(environ) ==
  IF ~Truthy(environ.OPENAI_API_KEY)
  THEN [type |-> "ValueError", message |-> OpenAIKeyMessage]
  ELSE NoException

\* the validation of WeeklyOutlookBot.__init__: the ValueError it raises, if any
ConfigError(environ) ==
  IF ~Truthy(environ.OPENAI_API_KEY)
  THEN [type |-> "ValueError", message |-> OpenAIKeyMessage]
  ELSE IF ~Truthy(environ.DISCORD_WEBHOOK_URL)
       THEN [type |-> "ValueError", message |-> WebhookMessage]
       ELSE NoException

\* bot = WeeklyOutlookBot(): the environment is read and validated, nothing is sent
Construct ==
  /\ pc = "init"
  /\ exc' = ConfigError(env)
  /\ pc' = IF ConfigError(env) = NoException THEN "test" ELSE "except"
  /\ UNCHANGED << env, articles, outlook, posts, llm_requests, news_requests, connected, outcome, arg, ret >>

\* test_openai returns False on any exception of the request, and main then returns
TestOpenAI ==
  /\ pc = "test"
  /\ \E llm \in {LlmDown, Completion(Str_k)} :
        /\ llm_requests' = llm_requests + 1
        /\ IF llm.kind = "completion"
           THEN connected' = "yes" /\ pc' = "fetch" /\ outcome' = outcome
           ELSE connected' = "no" /\ pc' = "exit" /\ outcome' = "returned"
  /\ UNCHANGED << env, articles, outlook, posts, news_requests, exc, arg, ret >>

Fetch ==
  /\ pc = "fetch"
  /\ \E upstream \in DriverUpstreams :
        /\ articles' = fetch_weekend_news(env.NEWS_API_KEY, upstream)
        /\ news_requests' = news_requests + NewsRequests(env.NEWS_API_KEY, upstream)
        /\ arg' = Append(arg, upstream)
  /\ pc' = "generate"
  /\ UNCHANGED << env, outlook, posts, llm_requests, connected, exc, outcome, ret >>

Generate ==
  /\ pc = "generate"
  /\ \E llm \in LlmAnswers :
        LET g == generate_weekly_outlook(articles, llm)
        IN  /\ outlook' = g.text
            /\ llm_requests' = llm_requests + g.requests
            /\ arg' = IF g.requests = 0 THEN arg ELSE Append(arg, llm)
  /\ pc' = "notify"
  /\ UNCHANGED << env, articles, posts, news_requests, connected, exc, outcome, ret >>

Notify ==
  /\ pc = "notify"
  /\ \E first \in Answers, second \in Answers :
        LET r == send_weekly_discord_webhook(outlook, articles, first, second)
        IN  /\ posts' = posts \o r.posts
            /\ exc' = r.exc
            /\ IF r.exc = NoException
               THEN pc' = "exit" /\ outcome' = "returned"
               ELSE pc' = "except" /\ outcome' = outcome
  /\ UNCHANGED << env, articles, outlook, llm_requests, news_requests, connected, arg, ret >>

\* if webhook_url: of the except block
NotifiesError(webhook_url) == Truthy(webhook_url)

\* the except block of main: one post of the error text when DISCORD_WEBHOOK_URL is
\* set, any exception of that post swallowed, then the original exception re-raised

Except ==
  /\ pc = "except"
  /\ IF NotifiesError(env.DISCORD_WEBHOOK_URL)
     THEN \E answer \in Answers :
             posts' = Append(posts, [payload |-> error_payload(exc.message), answer |-> answer])
     ELSE posts' = posts
  /\ pc' = "exit"
  /\ outcome' = "raised"
  /\ UNCHANGED << env, articles, outlook, llm_requests, news_requests, connected, exc, arg, ret >>

Next == Construct \/ TestOpenAI \/ Fetch \/ Generate \/ Notify \/ Except

Spec == Init /\ [][Next]_vars

----------------------------------------------------------------------------
(* _deduplicate_articles on its own: every sequence of up to MaxDedupArticles *)
(* articles with titles from DedupTitles                                      *)

Title_empty == <<>>
Title_blank == <<" "," ">>
Title_ten == <<"a"," ","b"," ","c"," ","d"," ","e"," ","f"," ","g"," ","h"," ","i"," ","j">>
Title_seven == <<"A"," ","B"," ","C"," ","D"," ","E"," ","F"," ","G">>
Title_eight == <<"a"," ","b"," ","c"," ","d"," ","e"," ","f"," ","g"," ","h">>
Title_fed == <<"F","e","d"," ","R","a","i","s","e","s"," ","R","a","t","e","s"," ","A","g","a","i","n">>
Title_fed_interest == <<"F","e","d"," ","R","a","i","s","e","s"," ","I","n","t","e","r","e","s","t"," ","R","a","t","e","s"," ","A","g","a","i","n">>
Title_apple == <<"A","p","p","l","e"," ","R","e","p","o","r","t","s"," ","E","a","r","n","i","n","g","s">>

\* no words; ten words; seven and eight of the ten (overlap 0.7 and 0.8); the three
\* headlines of the documented example
DedupTitles ==
  {Title_empty, Title_blank, Title_ten, Title_seven, Title_eight,
   Title_fed, Title_fed_interest, Title_apple}

MaxDedupArticles == 3

\* articles as the fetchers build them, the i-th with a url of i characters
ArticlesOf(titles) ==
  [i \in 1..Len(titles) |->
     Article(titles[i], Prefix(titles[i], DescriptionCap), Repeat("u", i), RssFeedName, <<>>,
             _calculate_relevance(titles[i], <<>>))]

DedupInputs ==
  {ArticlesOf(titles) : titles \in UNION {[1..n -> DedupTitles] : n \in 0..MaxDedupArticles}}

DriverIdle ==
  /\ env = [OPENAI_API_KEY |-> <<>>, DISCORD_WEBHOOK_URL |-> <<>>, NEWS_API_KEY |-> <<>>]
  /\ articles = <<>>
  /\ outlook = <<>>
  /\ posts = <<>>
  /\ llm_requests = 0
  /\ news_requests = 0
  /\ connected = "untested"
  /\ exc = NoException
  /\ outcome = "running"

InitDedup == pc = "call_dedup" /\ arg \in DedupInputs /\ ret = <<>> /\ DriverIdle

CallDeduplicate ==
  /\ pc = "call_dedup"
  /\ ret' = _deduplicate_articles(arg)
  /\ pc' = "return"
  /\ UNCHANGED << env, articles, outlook, posts, llm_requests, news_requests, connected, exc, outcome, arg >>

NextDedup == CallDeduplicate

SpecDedup == InitDedup /\ [][NextDedup]_vars

----------------------------------------------------------------------------
(* fetch_weekend_news on its own: NEWS_API_KEY set or not, the News API down, *)
(* refusing or answering, each of the four feeds down, short or long          *)

Str_fed == <<"f","e","d"," ">>
Str_ipo == <<"i","p","o"," ">>

\* entries a long feed offers, two more than the ten that are read
LongFeedEntries == 12

\* the i-th headline of feed f: two letters naming it, every third one about the Fed
\* and every third one about an IPO, so that scores repeat within and across feeds
Headline(f, i) ==
  (IF (f + i) % 3 = 0 THEN Str_fed ELSE IF (f + i) % 3 = 1 THEN Str_ipo ELSE <<>>)
  \o <<LowerChars[f], LowerChars[i]>>

LongFeed(f) ==
  Feed(<<Str_k>>, [i \in 1..LongFeedEntries |->
                     RssEntry(<<Headline(f, i)>>, <<>>, <<Str_link>>, <<>>)])

\* an entry with an empty title and an empty summary, one without link, one complete
ShortFeed(f) ==
  Feed(<<>>, << RssEntry(<< <<>> >>, << <<>> >>, <<Str_link>>, <<>>),
               RssEntry(<<Str_fed_holds>>, <<>>, <<>>, <<>>),
               RssEntry(<<Headline(f, 1)>>, <<Str_spy_reacts>>, <<Str_link>>, <<Str_k>>) >>)

FeedOptions(f) == {FeedDown, ShortFeed(f), LongFeed(f)}

\* a record without title, one with an empty description, one complete, one without
\* url (KeyError), one complete that the KeyError keeps from being read
ApiRecords ==
  << ApiRecord(<<>>, <<Str_k>>, <<Str_link>>, <<Str_k>>, <<Str_k>>),
     ApiRecord(<<Str_k>>, << <<>> >>, <<Str_link>>, <<Str_k>>, <<Str_k>>),
     ApiRecord(<<Str_spy_reacts>>, <<Str_fed_holds>>, <<Str_link>>, <<Str_k>>, <<Str_k>>),
     ApiRecord(<<Str_fed_holds>>, <<Str_k>>, <<>>, <<Str_k>>, <<Str_k>>),
     ApiRecord(<<Title_apple>>, <<Str_k>>, <<Str_link>>, <<Str_k>>, <<Str_k>>) >>

ApiOptions == {ApiDown, ApiResponse(500, <<>>), ApiResponse(200, ApiRecords)}

FetchInputs ==
  {[news_api_key |-> k, upstream |-> [api |-> a, feeds |-> fs]] :
     k \in {<<>>, <<Str_k>>}, a \in ApiOptions,
     fs \in {fs \in [1..NumFeeds -> UNION {FeedOptions(f) : f \in 1..NumFeeds}] :
               \A f \in 1..NumFeeds : fs[f] \in FeedOptions(f)}}

InitFetch == pc = "call_fetch" /\ arg \in FetchInputs /\ ret = <<>> /\ DriverIdle

CallFetchWeekendNews ==
  /\ pc = "call_fetch"
  /\ ret' = fetch_weekend_news(arg.news_api_key, arg.upstream)
  /\ pc' = "return"
  /\ UNCHANGED << env, articles, outlook, posts, llm_requests, news_requests, connected, exc, outcome, arg >>

NextFetch == CallFetchWeekendNews

SpecFetch == InitFetch /\ [][NextFetch]_vars

----------------------------------------------------------------------------
(* split_outlook on its own: texts of up to MaxPieces runs of one letter, each *)
(* followed by nothing, by a sentence end or by a paragraph break              *)

MaxPieces == 3
PieceLengths == {3, 600, max_length + 1}
PieceEnds == {<<>>, SentenceSep, ParagraphSep}

RECURSIVE TextOf(_)
TextOf(pieces) ==
  IF pieces = <<>> THEN <<>>
  ELSE Repeat("x", Head(pieces)[1]) \o Head(pieces)[2] \o TextOf(Tail(pieces))

SplitInputs ==
  {TextOf(pieces) : pieces \in UNION {[1..n -> PieceLengths \X PieceEnds] : n \in 1..MaxPieces}}

InitSplit == pc = "call_split" /\ arg \in SplitInputs /\ ret = <<>> /\ DriverIdle

CallSplitOutlook ==
  /\ pc = "call_split"
  /\ ret' = split_outlook(arg, max_length)
  /\ pc' = "return"
  /\ UNCHANGED << env, articles, outlook, posts, llm_requests, news_requests, connected, exc, outcome, arg >>

NextSplit == CallSplitOutlook

SpecSplit == InitSplit /\ [][NextSplit]_vars

----------------------------------------------------------------------------
(* Properties of main() and of the Notifier, checked under Spec *)

IsNotifierPost(p) == p.payload.kind \in {"rich", "simple"}
IsErrorPost(p) == p.payload.kind = "error"
Accepted(answer) == answer.kind = "response" /\ answer.status < 400
IsMissing(opt) == opt = <<>> \/ opt = << <<>> >>
MissingRequired == IsMissing(env.OPENAI_API_KEY) \/ IsMissing(env.DISCORD_WEBHOOK_URL)
Propagates == exc.type \in {"HTTPError", "ConnectionError"} /\ (pc = "except" \/ outcome = "raised")
Delivered == exc = NoException /\ pc = "exit" /\ outcome = "returned"

\* the content of the simplified payload: the fixed heading, then outlook[:1800]
SimplifiedContentOf(content, text) ==
  LET heading == SimplePrefix \o week_range \o SimpleInfix
      body == SubSeq(content, Len(heading) + 1, Len(content))
  IN  /\ Len(content) >= Len(heading)
      /\ SubSeq(content, 1, Len(heading)) = heading
      /\ Len(body) = (IF Len(text) <= 1800 THEN Len(text) ELSE 1800)
      /\ \A i \in 1..Len(body) : body[i] = text[i]

\* C1: send_weekly_discord_webhook makes at most two POSTs; a second POST is made
\* exactly when the first is answered with HTTP 400, it carries only content and
\* username with content = heading + outlook[:1800], and its failure propagates;
\* any other failure of the first POST propagates without a second POST; a first
\* POST that succeeds is the only one.
C1_RetryOnlyOn400 ==
  LET sent == SelectSeq(posts, IsNotifierPost)
  IN  /\ Len(sent) <= 2
      /\ (sent # <<>>) =>
           /\ sent[1].payload.kind = "rich"
           /\ IF sent[1].answer.kind = "response" /\ sent[1].answer.status = 400
              THEN /\ Len(sent) = 2
                   /\ sent[2].payload.kind = "simple"
                   /\ sent[2].payload.embeds = <<>>
                   /\ SimplifiedContentOf(sent[2].payload.content, outlook)
                   /\ IF Accepted(sent[2].answer) THEN Delivered ELSE Propagates
              ELSE /\ Len(sent) = 1
                   /\ IF Accepted(sent[1].answer) THEN Delivered ELSE Propagates

\* a run whose first POST got HTTP 400 and whose simplified POST of an outlook longer
\* than 1800 characters failed in transport, after which main re-raised
C1_Witness ==
  /\ outcome = "raised"
  /\ Len(posts) = 3
  /\ posts[1].answer = Response(400)
  /\ posts[2].payload.kind = "simple"
  /\ posts[2].answer = Transport
  /\ Len(outlook) > SimpleCap

\* C2: whenever the run has failed (the connectivity probe failed, the configuration
\* is invalid, or a stage raised), main ends by raising.
C2_FailedAlwaysRaises ==
  (pc = "exit" /\ (connected = "no" \/ exc # NoException)) => outcome = "raised"

\* C3: a run with valid configuration ends either with an outlook accepted by the
\* webhook, or raising the original error after exactly one POST of the error text.
C3_OutlookOrErrorNotice ==
  (pc = "exit" /\ ~MissingRequired) =>
     \/ /\ outcome = "returned"
        /\ \E i \in 1..Len(posts) : IsNotifierPost(posts[i]) /\ Accepted(posts[i].answer)
     \/ /\ outcome = "raised"
        /\ exc # NoException
        /\ Cardinality({i \in 1..Len(posts) : IsErrorPost(posts[i])}) = 1

\* C4 as stated: when a required setting is missing, nothing is sent to the
\* text-generation service, to a news source or to the webhook.
C4_NothingSentOnConfigError ==
  MissingRequired => (llm_requests = 0 /\ news_requests = 0 /\ posts = <<>>)

\* C4: when a required setting is missing, __init__ raises ValueError, nothing is
\* sent to the text-generation service or to a news source and no outlook is posted;
\* the except block of main posts the error text to the webhook, once, exactly when
\* DISCORD_WEBHOOK_URL is set, and main re-raises.
C4_ConfigErrorNotifiesIfWebhookSet ==
  MissingRequired =>
     /\ llm_requests = 0
     /\ news_requests = 0
     /\ pc # "init" => exc.type = "ValueError"
     /\ \A i \in 1..Len(posts) : IsErrorPost(posts[i])
     /\ pc # "exit" => posts = <<>>
     /\ pc = "exit" =>
          /\ outcome = "raised"
          /\ Len(posts) = (IF IsMissing(env.DISCORD_WEBHOOK_URL) THEN 0 ELSE 1)

\* a run without OPENAI_API_KEY and with the webhook URL set, after the error POST
C4_Witness ==
  /\ pc = "exit"
  /\ IsMissing(env.OPENAI_API_KEY)
  /\ ~IsMissing(env.DISCORD_WEBHOOK_URL)
  /\ Len(posts) = 1
  /\ IsErrorPost(posts[1])

----------------------------------------------------------------------------
(* Properties of _deduplicate_articles, checked under SpecDedup *)

Shared(a, b) == Cardinality(TitleWords(a.title) \cap TitleWords(b.title))
Larger(a, b) == Max2(Cardinality(TitleWords(a.title)), Cardinality(TitleWords(b.title)))
\* the place in the input of an article of ArticlesOf
Place(a) == Len(a.url)
IsSubsequenceOfInput(result, input) ==
  /\ \A k \in 1..Len(result) : Place(result[k]) \in 1..Len(input) /\ input[Place(result[k])] = result[k]
  /\ \A k \in 1..(Len(result) - 1) : Place(result[k]) < Place(result[k + 1])
Dropped(result, input) == {i \in 1..Len(input) : \A k \in 1..Len(result) : Place(result[k]) # i}
ZeroWordTitles(input) == {i \in 1..Len(input) : TitleWords(input[i].title) = {}}

\* C5 as stated: whenever a result is returned, it is a subsequence in input order, no
\* two returned titles overlap by 0.7 or more, and every dropped article overlaps by at
\* least 0.7 with a returned article that precedes it.
C5_NoOverlapAtLeast07 ==
  (pc = "return" /\ ~ret.raised) =>
     /\ IsSubsequenceOfInput(ret.value, arg)
     /\ \A i, j \in 1..Len(ret.value) :
           i < j => 10 * Shared(ret.value[i], ret.value[j]) < 7 * Larger(ret.value[i], ret.value[j])
     /\ \A d \in Dropped(ret.value, arg) :
           \E k \in 1..Len(ret.value) :
              /\ Place(ret.value[k]) < d
              /\ 10 * Shared(ret.value[k], arg[d]) >= 7 * Larger(ret.value[k], arg[d])

\* C5: _deduplicate_articles returns unless the input has two titles without words
\* (then it raises, see C6); what it returns is a subsequence in input order in which
\* no two titles overlap by more than 0.7, and every dropped article overlaps by more
\* than 0.7 with a returned article that precedes it.  Titles that overlap by exactly
\* 0.7 are both returned.
C5_OverlapAbove07 ==
  pc = "return" =>
     /\ ret.raised <=> Cardinality(ZeroWordTitles(arg)) >= 2
     /\ ~ret.raised =>
          /\ IsSubsequenceOfInput(ret.value, arg)
          /\ \A i, j \in 1..Len(ret.value) :
                i < j => 10 * Shared(ret.value[i], ret.value[j])
                            <= 7 * Larger(ret.value[i], ret.value[j])
          /\ \A d \in Dropped(ret.value, arg) :
                \E k \in 1..Len(ret.value) :
                   /\ Place(ret.value[k]) < d
                   /\ 10 * Shared(ret.value[k], arg[d]) > 7 * Larger(ret.value[k], arg[d])

\* a result that keeps two titles overlapping by exactly 0.7 and drops a third article
C5_Witness ==
  /\ pc = "return"
  /\ ~ret.raised
  /\ Len(ret.value) < Len(arg)
  /\ \E i, j \in 1..Len(ret.value) :
        /\ i < j
        /\ Larger(ret.value[i], ret.value[j]) > 0
        /\ 10 * Shared(ret.value[i], ret.value[j]) = 7 * Larger(ret.value[i], ret.value[j])

\* C6: _deduplicate_articles never raises, whatever titles without words the input has.
C6_NeverRaises == pc = "return" => ~ret.raised

----------------------------------------------------------------------------
(* Properties of fetch_weekend_news, checked under SpecFetch *)

Deduplicated == _deduplicate_articles(FetchedArticles(arg.news_api_key, arg.upstream))
PlaceIn(list, a) == CHOOSE i \in 1..Len(list) : list[i] = a

\* C7: the list returned is the deduplicated articles in non-increasing order of
\* relevance_score, equal scores in deduplicated order, cut to the first 15: its
\* length is min(15, number deduplicated), and an article left out neither scores
\* higher than one kept nor ties with one kept that came after it.
C7_RankedTopN ==
  (pc = "return" /\ ~Deduplicated.raised) =>
     LET unique == Deduplicated.value
     IN  /\ Len(ret) = (IF Len(unique) > 15 THEN 15 ELSE Len(unique))
         /\ \A k \in 1..Len(ret) : ret[k] \in Range(unique)
         /\ \A i, j \in 1..Len(ret) :
               i < j =>
                 \/ ret[i].relevance_score > ret[j].relevance_score
                 \/ /\ ret[i].relevance_score = ret[j].relevance_score
                    /\ PlaceIn(unique, ret[i]) < PlaceIn(unique, ret[j])
         /\ \A a \in Range(unique) \ Range(ret) : \A k \in 1..Len(ret) :
               \/ a.relevance_score < ret[k].relevance_score
               \/ /\ a.relevance_score = ret[k].relevance_score
                  /\ PlaceIn(unique, a) > PlaceIn(unique, ret[k])

\* more than 15 articles survive deduplication, 15 are returned, two of them tie, and
\* an article left out ties with one kept
C7_Witness ==
  /\ pc = "return"
  /\ ~Deduplicated.raised
  /\ Len(Deduplicated.value) > 15
  /\ Len(ret) = 15
  /\ \E i, j \in 1..Len(ret) : i < j /\ ret[i].relevance_score = ret[j].relevance_score
  /\ \E a \in Range(Deduplicated.value) \ Range(ret) :
        a.relevance_score = ret[Len(ret)].relevance_score

\* C8: every article returned has a non-empty title, a non-empty description and a
\* relevance_score >= 0.
C8_ArticlesWellFormed ==
  pc = "return" =>
     \A k \in 1..Len(ret) :
        ret[k].title # <<>> /\ ret[k].description # <<>> /\ ret[k].relevance_score >= 0

----------------------------------------------------------------------------
(* Properties of split_outlook, checked under SpecSplit *)

\* the chunks joined again, seps[k] between chunk k and chunk k + 1
RECURSIVE Rejoin(_, _)
Rejoin(chunks, seps) ==
  IF chunks = <<>> THEN <<>>
  ELSE IF Len(chunks) = 1 THEN chunks[1]
  ELSE chunks[1] \o seps[1] \o Rejoin(Tail(chunks), Tail(seps))

\* C9: every chunk split_outlook returns has at most max_length characters.
C9_ChunksWithinLimit ==
  pc = "return" => \A k \in 1..Len(ret) : Len(ret[k]) <= max_length

\* C10: the chunks, joined in order with a blank line or a sentence end put back at
\* each cut, give the original text (blanks at its two ends aside).
C10_ChunksReproduceText ==
  pc = "return" =>
     \E seps \in [1..(Len(ret) - 1) -> {ParagraphSep, SentenceSep}] :
        Strip(Rejoin(ret, seps)) = Strip(arg)

----------------------------------------------------------------------------
(* Properties of the Generate and Fetch stages of main(), checked under Spec *)

\* the probe succeeded and the stage has been left
AfterFetch == connected = "yes" /\ pc \in {"generate", "notify", "except", "exit"}
AfterGenerate == connected = "yes" /\ pc \in {"notify", "except", "exit"}

\* C11: generate_weekly_outlook raises nothing and returns a text: for an empty
\* article list the no-news sentence, with no request sent; otherwise one request is
\* sent and the text is the service's (stripped), or the service-failure sentence when
\* the request failed.  After Generate the run is at Notify: the except block is
\* entered only after the Notifier has posted.
C11_GenerateAlwaysReturnsText ==
  AfterGenerate =>
     /\ Len(arg) >= 1
     /\ IF articles = <<>>
        THEN /\ Len(arg) = 1
             /\ llm_requests = 1
             /\ outlook = NoNewsFallback
        ELSE /\ Len(arg) = 2
             /\ llm_requests = 2
             /\ outlook = (IF arg[2].kind = "completion" THEN Strip(arg[2].content)
                                                         ELSE ServiceFallback)
     /\ pc = "notify" => (exc = NoException /\ outcome = "running")
     /\ pc \in {"except", "exit"} => (posts # <<>> /\ posts[1].payload.kind = "rich")

\* the service failed for a non-empty article list and the fallback sentence is about
\* to be sent
C11_Witness ==
  /\ pc = "notify"
  /\ articles # <<>>
  /\ Len(arg) = 2
  /\ arg[2] = LlmDown
  /\ outlook = ServiceFallback
  /\ llm_requests = 2

\* article[...] of a record that passed the title and description test raises KeyError
RecordRaises(r) ==
  /\ Truthy(r.title) /\ Truthy(r.description)
  /\ (r.url = <<>> \/ r.source = <<>> \/ r.publishedAt = <<>>)

\* the except block of _fetch_from_newsapi runs, or the status is not 200
ApiFails(api) ==
  \/ api.kind = "exception"
  \/ api.status # 200
  \/ \E i \in 1..Len(api.articles) : RecordRaises(api.articles[i])

\* the except block of _fetch_from_rss runs for the feed
FeedFails(feed) == feed.kind = "exception"

\* every source that is asked fails
AllSourcesFail(news_api_key, upstream) ==
  /\ Truthy(news_api_key) => ApiFails(upstream.api)
  /\ \A i \in 1..Len(upstream.feeds) : FeedFails(upstream.feeds[i])

\* the same answers with every failed source replaced by one that answers with nothing
Silence(upstream) ==
  [api |-> IF ApiFails(upstream.api) THEN ApiResponse(200, <<>>) ELSE upstream.api,
   feeds |-> [i \in 1..Len(upstream.feeds) |->
                IF FeedFails(upstream.feeds[i]) THEN Feed(<<>>, <<>>)
                ELSE upstream.feeds[i]]]

\* every feed is attempted whatever failed before it, and nothing is raised to main
C12_AllFeedsAttempted ==
  AfterFetch =>
     /\ Len(arg) >= 1
     /\ Len(arg[1].feeds) = NumFeeds
     /\ news_requests = NewsRequests(env.NEWS_API_KEY, arg[1])
     /\ pc \in {"generate", "notify"} => (exc = NoException /\ outcome = "running")

\* the ranked output is what it would be had each failed source answered with nothing
C12_FailedSourceContributesNothing ==
  AfterFetch => articles = fetch_weekend_news(env.NEWS_API_KEY, Silence(arg[1]))

\* when every source fails the list is empty, and the message that is posted holds the
\* no-news outlook, the stories placeholder and the checklist
C12_OutageStillPosts ==
  (AfterFetch /\ AllSourcesFail(env.NEWS_API_KEY, arg[1])) =>
     /\ articles = <<>>
     /\ AfterGenerate =>
          /\ outlook = NoNewsFallback
          /\ llm_requests = 1
     /\ (connected = "yes" /\ pc \in {"except", "exit"}) =>
          /\ posts # <<>>
          /\ posts[1].payload.kind = "rich"
          /\ Len(posts[1].payload.embeds) = 3
          /\ Len(posts[1].payload.embeds[1].fields) = 1
          /\ posts[1].payload.embeds[1].fields[1].value = NoNewsFallback
          /\ posts[1].payload.embeds[2].title = "Key Stories"
          /\ posts[1].payload.embeds[3] = calendar_embed

\* C12: a failed source (News API: exception or status other than 200; a feed: its
\* parse raising) contributes no article, the remaining feeds are still attempted, the
\* articles of the other sources stay in the ranked output, and nothing is raised to
\* main; when every source fails the list is empty and the run still posts the message
\* of three sections.
C12_SourceFailuresIsolated ==
  /\ C12_AllFeedsAttempted
  /\ C12_FailedSourceContributesNothing
  /\ C12_OutageStillPosts

====
